---- MODULE Spec2Model ----
(***************************************************************************)
(* Galaxy-emission-plot.py: corr_coeff, data and plot.                     *)
(*                                                                         *)
(* Numbers.  The program computes in numpy float64.  The model computes    *)
(* the same expressions exactly, so rounding is the one thing left out.    *)
(* A float is a record                                                     *)
(*     [k, v, ku, ki, cu, ci]                                              *)
(* k  : "fin", "nan", "inf", "ninf" (the IEEE specials numpy produces) or  *)
(*      "sym" (a real number outside the representable family below);      *)
(* and, for k = "fin", the real number                                     *)
(*     v * KUV^ku * KIR^ki  +  cu * log10(KUV)  +  ci * log10(KIR)         *)
(* with v, cu, ci rationals <<numerator, denominator>> and ku, ki          *)
(* integers.  KUV = 3.365e-5/(25 pi) and KIR = 1e6/4.25e10 are the two     *)
(* calibration constants of data(); they and their logarithms are kept     *)
(* as symbols, which is exact because they are positive and the code only  *)
(* multiplies by them, divides by them and takes log10.                    *)
(* The result of np.sqrt is a second kind of record, [k, s, sq, ln],       *)
(* standing for  s * sqrt(sq) * ln(10)^ln  with s in {-1, 0, 1}.           *)
(***************************************************************************)
EXTENDS Integers, Sequences, FiniteSets, TLC

\* ------------------------------------------------------------------------
\* Bounds of the checked instance.
MaxGalaxies == 2      \* longest galaxies list passed to plot
MaxExp == 1           \* positive net counts are 10^0 .. 10^MaxExp
MaxRadius == 2        \* galactocentric radii are 1 .. MaxRadius
MaxLen == 3           \* longest array handed to corr_coeff on its own
MaxVal == 2           \* entries of those arrays are 0 .. MaxVal

\* ------------------------------------------------------------------------
\* Exact rationals <<n, d>>, d > 0, in lowest terms.

Abs(a) == IF a < 0 THEN -a ELSE a

Sign(a) == IF a < 0 THEN -1 ELSE IF a = 0 THEN 0 ELSE 1

RECURSIVE GCD(_, _)
GCD(a, b) == IF b = 0 THEN a ELSE GCD(b, a % b)

RNorm(n, d) ==
    LET g == GCD(Abs(n), Abs(d))
        s == IF d < 0 THEN -1 ELSE 1
    IN  <<(s * n) \div g, (s * d) \div g>>

R(n) == <<n, 1>>

RAdd(a, b) == RNorm(a[1] * b[2] + b[1] * a[2], a[2] * b[2])

RNeg(a) == <<-a[1], a[2]>>

RMul(a, b) == RNorm(a[1] * b[1], a[2] * b[2])

RInv(a) == RNorm(a[2], a[1])

RDiv(a, b) == RMul(a, RInv(b))

RSign(a) == Sign(a[1])

\* ------------------------------------------------------------------------
\* float64 values.

Fin(v, ku, ki, cu, ci) ==
    [k |-> "fin", v |-> v, ku |-> ku, ki |-> ki, cu |-> cu, ci |-> ci]

Special(kind) ==
    [k |-> kind, v |-> R(0), ku |-> 0, ki |-> 0, cu |-> R(0), ci |-> R(0)]

NaN == Special("nan")

PInf == Special("inf")

NInf == Special("ninf")

Sym == Special("sym")

Pure(q) == Fin(q, 0, 0, R(0), R(0))

Num(n) == Pure(R(n))

IsFin(a) == a.k = "fin"

HasLogPart(a) == a.cu # R(0) \/ a.ci # R(0)

IsScalar(a) == IsFin(a) /\ a.ku = 0 /\ a.ki = 0 /\ ~HasLogPart(a)

InfSign(a) == IF a.k = "inf" THEN 1 ELSE -1

SignedInf(s) == IF s > 0 THEN PInf ELSE NInf

Neg(a) ==
    CASE a.k = "fin" -> Fin(RNeg(a.v), a.ku, a.ki, RNeg(a.cu), RNeg(a.ci))
      [] a.k = "inf" -> NInf
      [] a.k = "ninf" -> PInf
      [] OTHER -> a

\* a + b
Add(a, b) ==
    CASE a.k = "sym" \/ b.k = "sym" -> Sym
      [] a.k = "nan" \/ b.k = "nan" -> NaN
      [] ~IsFin(a) /\ ~IsFin(b) -> IF a.k = b.k THEN a ELSE NaN
      [] ~IsFin(a) -> a
      [] ~IsFin(b) -> b
      [] OTHER ->
            IF a.ku = b.ku /\ a.ki = b.ki
            THEN Fin(RAdd(a.v, b.v), a.ku, a.ki, RAdd(a.cu, b.cu), RAdd(a.ci, b.ci))
            ELSE Sym

\* a - b
Sub(a, b) == Add(a, Neg(b))

\* a * b
Mul(a, b) ==
    CASE a.k = "sym" \/ b.k = "sym" -> Sym
      [] a.k = "nan" \/ b.k = "nan" -> NaN
      [] ~IsFin(a) /\ ~IsFin(b) -> SignedInf(InfSign(a) * InfSign(b))
      [] ~IsFin(a) ->
            IF HasLogPart(b) THEN Sym
            ELSE IF RSign(b.v) = 0 THEN NaN ELSE SignedInf(InfSign(a) * RSign(b.v))
      [] ~IsFin(b) ->
            IF HasLogPart(a) THEN Sym
            ELSE IF RSign(a.v) = 0 THEN NaN ELSE SignedInf(InfSign(b) * RSign(a.v))
      [] OTHER ->
            IF ~HasLogPart(a) /\ ~HasLogPart(b)
            THEN Fin(RMul(a.v, b.v), a.ku + b.ku, a.ki + b.ki, R(0), R(0))
            ELSE IF IsScalar(a)
            THEN Fin(RMul(a.v, b.v), b.ku, b.ki, RMul(a.v, b.cu), RMul(a.v, b.ci))
            ELSE IF IsScalar(b)
            THEN Fin(RMul(a.v, b.v), a.ku, a.ki, RMul(b.v, a.cu), RMul(b.v, a.ci))
            ELSE Sym

\* a / b for numpy floats: a zero divisor gives inf, -inf or nan, never an error.
Div(a, b) ==
    CASE a.k = "sym" \/ b.k = "sym" -> Sym
      [] a.k = "nan" \/ b.k = "nan" -> NaN
      [] ~IsFin(a) /\ ~IsFin(b) -> NaN
      [] ~IsFin(b) -> IF HasLogPart(a) THEN Sym ELSE Num(0)
      [] HasLogPart(b) -> Sym
      [] ~IsFin(a) ->
            IF RSign(b.v) = 0 THEN a ELSE SignedInf(InfSign(a) * RSign(b.v))
      [] RSign(b.v) = 0 ->
            IF HasLogPart(a) THEN Sym
            ELSE IF RSign(a.v) = 0 THEN NaN ELSE SignedInf(RSign(a.v))
      [] OTHER ->
            IF ~HasLogPart(a)
            THEN Fin(RDiv(a.v, b.v), a.ku - b.ku, a.ki - b.ki, R(0), R(0))
            ELSE IF IsScalar(b)
            THEN Fin(RDiv(a.v, b.v), a.ku, a.ki, RDiv(a.cu, b.v), RDiv(a.ci, b.v))
            ELSE Sym

\* m is a positive integer: is it 1, 10, 100, ...
RECURSIVE IsPow10(_)
IsPow10(m) == IF m = 1 THEN TRUE ELSE IF m % 10 = 0 THEN IsPow10(m \div 10) ELSE FALSE

RECURSIVE Exp10(_)
Exp10(m) == IF m < 10 THEN 0 ELSE 1 + Exp10(m \div 10)

\* np.log10: -inf at 0, nan below 0 (a RuntimeWarning, no exception).  The
\* positive rationals whose log10 is rational are the powers of ten.
Log10Clipped(a) ==
    CASE a.k = "sym" -> Sym
      [] a.k = "nan" \/ a.k = "ninf" -> Num(0)
      [] a.k = "inf" -> PInf
      [] HasLogPart(a) -> Sym
      [] RSign(a.v) <= 0 -> Num(0)
      [] a.v[2] = 1 /\ IsPow10(a.v[1]) ->
            Fin(R(Exp10(a.v[1])), 0, 0, R(a.ku), R(a.ki))
      [] a.v[1] = 1 /\ IsPow10(a.v[2]) ->
            Fin(R(-Exp10(a.v[2])), 0, 0, R(a.ku), R(a.ki))
      [] OTHER -> Sym

Log10(a) ==
    CASE a.k = "sym" -> Sym
      [] a.k = "nan" \/ a.k = "ninf" -> NaN
      [] a.k = "inf" -> PInf
      [] HasLogPart(a) -> Sym
      [] RSign(a.v) = 0 -> NInf
      [] RSign(a.v) < 0 -> NaN
      [] a.v[2] = 1 /\ IsPow10(a.v[1]) ->
            Fin(R(Exp10(a.v[1])), 0, 0, R(a.ku), R(a.ki))
      [] a.v[1] = 1 /\ IsPow10(a.v[2]) ->
            Fin(R(-Exp10(a.v[2])), 0, 0, R(a.ku), R(a.ki))
      [] OTHER -> Sym

\* ------------------------------------------------------------------------
\* Values of np.sqrt: s * sqrt(sq) * ln(10)^ln.

Root(s, sq, ln) == [k |-> "fin", s |-> s, sq |-> sq, ln |-> ln]

RootSpecial(kind) == [k |-> kind, s |-> 0, sq |-> R(0), ln |-> 0]

\* np.sqrt(a): nan below 0.
Sqrt(a) ==
    CASE a.k = "sym" -> RootSpecial("sym")
      [] a.k = "nan" \/ a.k = "ninf" -> RootSpecial("nan")
      [] a.k = "inf" -> RootSpecial("inf")
      [] ~IsScalar(a) -> RootSpecial("sym")
      [] RSign(a.v) < 0 -> RootSpecial("nan")
      [] OTHER -> Root(RSign(a.v), a.v, 0)

\* root * scalar
RootTimes(t, a) ==
    IF t.k = "fin" /\ IsScalar(a)
    THEN Root(t.s * RSign(a.v), RMul(t.sq, RMul(a.v, a.v)), t.ln)
    ELSE IF t.k = "nan" \/ a.k = "nan" THEN RootSpecial("nan")
    ELSE RootSpecial("sym")

\* root ** 2
RootSquare(t) ==
    IF t.k = "fin" /\ t.ln = 0 THEN Pure(t.sq)
    ELSE IF t.k = "nan" THEN NaN
    ELSE IF t.k = "inf" \/ t.k = "ninf" THEN PInf
    ELSE Sym

\* scalar / root
DivRoot(a, t) ==
    CASE a.k = "sym" \/ t.k = "sym" -> RootSpecial("sym")
      [] a.k = "nan" \/ t.k = "nan" -> RootSpecial("nan")
      [] ~IsFin(a) /\ t.k # "fin" -> RootSpecial("nan")
      [] t.k # "fin" -> Root(0, R(0), 0)
      [] ~IsFin(a) ->
            IF t.s = 0 THEN RootSpecial(a.k)
            ELSE RootSpecial(IF InfSign(a) * t.s > 0 THEN "inf" ELSE "ninf")
      [] ~IsScalar(a) -> RootSpecial("sym")
      [] t.s = 0 ->
            IF RSign(a.v) = 0 THEN RootSpecial("nan")
            ELSE RootSpecial(IF RSign(a.v) > 0 THEN "inf" ELSE "ninf")
      [] OTHER ->
            Root(RSign(a.v) * t.s, RDiv(RMul(a.v, a.v), t.sq), -t.ln)

\* 1/np.log(10)
InvLn10 == Root(1, R(1), -1)

\* root * root
RootMul(t, w) ==
    IF t.k = "fin" /\ w.k = "fin"
    THEN Root(t.s * w.s, RMul(t.sq, w.sq), t.ln + w.ln)
    ELSE IF t.k = "nan" \/ w.k = "nan" THEN RootSpecial("nan")
    ELSE RootSpecial("sym")

\* ------------------------------------------------------------------------
\* Arrays.

\* Python's sum(): 0 + a[1] + a[2] + ...
RECURSIVE SumTo(_, _)
SumTo(a, n) == IF n = 0 THEN Num(0) ELSE Add(SumTo(a, n - 1), a[n])

Sum(a) == SumTo(a, Len(a))

\* A numpy array: the sequence of its elements, each computed once.
Array(f) == SubSeq(f, 1, Len(f))

\* a - m and a * b, elementwise (numpy broadcasting of a scalar, equal lengths).
MinusScalar(a, m) ==
    Array([k \in 1..Len(a) |-> Sub(a[k], m)])

Times(a, b) ==
    Array([k \in 1..Len(a) |-> Mul(a[k], b[k])])

Over(a, b) ==
    Array([k \in 1..Len(a) |-> Div(a[k], b[k])])

\* a - m*b and a*m, elementwise
MinusScaled(a, m, b) ==
    Array([k \in 1..Len(a) |-> Sub(a[k], Mul(m, b[k]))])

Scaled(a, m) ==
    Array([k \in 1..Len(a) |-> Mul(a[k], m)])

Log10All(a) ==
    Array([k \in 1..Len(a) |-> Log10(a[k])])

\* ------------------------------------------------------------------------
\* corr_coeff(xarr, yarr), for arrays of equal length >= 1 (sum()/len() of an
\* empty array is Python's 0/0, a ZeroDivisionError: see Correlate).

\* sum(arr)/len(arr)
Mean(arr) == Div(Sum(arr), Num(Len(arr)))

\* arr - mean
Centred(arr) == MinusScalar(arr, Mean(arr))

\* top/bottom, from dx = xarr - xmean and dy = yarr - ymean
QuotientNoSqrt(dx, dy) ==
    DivRoot(Sum(Times(dx, dy)),
            Sqrt(Mul(Mul(Sum(Times(dx, dx)), Sum(Times(dy, dy))),
                     Mul(Sum(Times(dx, dx)), Sum(Times(dy, dy))))))

Quotient(dx, dy) ==
    DivRoot(Sum(Times(dx, dy)),
            Sqrt(Mul(Sum(Times(dx, dx)), Sum(Times(dy, dy)))))

corr_coeff(xarr, yarr) == Quotient(Centred(xarr), Centred(yarr))

\* ------------------------------------------------------------------------
\* data(galaxy).  A file is the sequence of its data lines (skip_header = 1
\* drops the header), a line the sequence of its fields; fields are integers.
\* d is the directory: d[galaxy].emission is <galaxy>_emission_npix.txt and
\* d[galaxy].stdev is <galaxy>_Stdev_mean.txt.  Files have at least two
\* data lines (genfromtxt returns a 2-D array).

genfromtxt(file) ==
    Array([row \in 1..Len(file) |-> [c \in 1..Len(file[row]) |-> Num(file[row][c])]])

\* array[:, c], c counted from 0 as in the source
Col(array, c) ==
    Array([row \in 1..Len(array) |-> array[row][c + 1]])

\* array[:, c] = column
SetCol(array, c, column) ==
    Array([row \in 1..Len(array) |-> [array[row] EXCEPT ![c + 1] = column[row]]])

\* (3.365*(10**(-5)))/(np.pi*5**2)
KUV == Fin(R(1), 1, 0, R(0), R(0))

\* (10**6)/(4.25*10**10)
KIR == Fin(R(1), 0, 1, R(0), R(0))

\* 0.03 and 0.04
CalUncUV == Pure(<<3, 100>>)

CalUncIR == Pure(<<4, 100>>)

\* Lines 63-64: UV_bckg_mean and IR_bckg_mean.
UVBackgroundFromIR(stdevs) == Mean(Col(stdevs, 2))

UVBackground(stdevs) == Mean(Col(stdevs, 0))

IRBackground(stdevs) == Mean(Col(stdevs, 2))

\* data[:, c] -= bckg_mean*data[:, n]
SubtractBackground(array, c, bckg_mean, n) ==
    SetCol(array, c, MinusScaled(Col(array, c), bckg_mean, Col(array, n)))

\* Lines 65-66: the array after both subtractions.
Subtracted(array, stdevs) ==
    SubtractBackground(SubtractBackground(array, 2, UVBackground(stdevs), 3),
                       4, IRBackground(stdevs), 5)

\* Lines 68-69: (sum(stdevs[:, c])/len(stdevs[:, c]))/bckg_mean
UncPerPix(stdevs, c, bckg_mean) == Div(Mean(Col(stdevs, c)), bckg_mean)

\* Lines 72-73: (np.sqrt(data[:, n]))*unc_perpix
PercUnc(array, n, unc_perpix) ==
    Array([k \in 1..Len(array) |-> RootTimes(Sqrt(array[k][n + 1]), unc_perpix)])

\* Lines 75, 78: data[:, c] *= K
Calibrate(array, c, K) == SetCol(array, c, Scaled(Col(array, c), K))

\* Lines 76, 79: np.sqrt((perc_unc**2) + (cal**2))
UncertaintyNoCal(perc_unc, cal) ==
    Array([k \in 1..Len(perc_unc) |-> Sqrt(RootSquare(perc_unc[k]))])

Uncertainty(perc_unc, cal) ==
    Array([k \in 1..Len(perc_unc) |-> Sqrt(Add(RootSquare(perc_unc[k]), Mul(cal, cal)))])

\* Lines 81-82: (1/np.log(10))*uncertainty
LogUnc(uncertainty) ==
    Array([k \in 1..Len(uncertainty) |-> RootMul(InvLn10, uncertainty[k])])

\* Lines 68-84, from the array as lines 65-66 leave it: the list returned
\* (ret) and the function's local array when it returns (array).
Reduced(array, stdevs) ==
    [ret |-> <<Col(Calibrate(array, 2, KUV), 2),
               Col(Calibrate(array, 4, KIR), 4),
               Col(array, 6),
               LogUnc(Uncertainty(
                   PercUnc(array, 3, UncPerPix(stdevs, 1, UVBackground(stdevs))),
                   CalUncUV)),
               LogUnc(Uncertainty(
                   PercUnc(array, 5, UncPerPix(stdevs, 3, IRBackground(stdevs))),
                   CalUncIR))>>,
     array |-> Calibrate(Calibrate(array, 2, KUV), 4, KIR)]

\* Lines 60-84.
Loaded(array, stdevs) == Reduced(Subtracted(array, stdevs), stdevs)

data(d, galaxy) ==
    Loaded(genfromtxt(d[galaxy].emission), genfromtxt(d[galaxy].stdev))

\* What a call of data(galaxy) leaves behind for the next call: it reads the
\* two files into fresh arrays, updates those arrays in place and writes
\* nothing, so the directory is as before.
WrittenBack(d, galaxy, a) ==
    [d EXCEPT ![galaxy].emission =
        [row \in 1..Len(a) |->
            [c \in 1..Len(a[row]) |-> a[row][c].v[1] \div a[row][c].v[2]]]]

DataEffectWriteBack(d, galaxy) == WrittenBack(d, galaxy, data(d, galaxy).array)

DataEffect(d, galaxy) == d

\* n successive calls data(galaxy): their values in call order, and the
\* directory after the last.
RECURSIVE DataCalls(_, _, _)
Called(before, galaxy) ==
    [rets |-> Append(before.rets, data(before.disk, galaxy).ret),
     disk |-> DataEffect(before.disk, galaxy)]

DataCalls(d, galaxy, n) ==
    IF n = 0 THEN [rets |-> <<>>, disk |-> d]
    ELSE Called(DataCalls(d, galaxy, n - 1), galaxy)

\* ------------------------------------------------------------------------
\* Strings that embed a number: 'r = ' + str(coefficient) is
\* [text |-> "r = ", val |-> coefficient]; a plain string has val = NoVal.

NoVal == RootSpecial("none")

Str(text) == [text |-> text, val |-> NoVal]

StrOf(text, val) == [text |-> text, val |-> val]

\* 'prefix' + s
Prefixed(prefix, s) == [text |-> prefix \o s.text, val |-> s.val]

\* ------------------------------------------------------------------------
\* plot(galaxies, colours = None)

\* colours is [none |-> TRUE, list |-> <<>>] for None, else the list.
None == [none |-> TRUE, list |-> <<>>]

List(l) == [none |-> FALSE, list |-> l]

\* 'if colours:' (None and the empty list are both false)
Truthy(colours) == ~colours.none /\ Len(colours.list) > 0

\* np.append(arr, values)
AppendReplacing(arr, values) == values

NpAppend(arr, values) == arr \o values

\* np.log10(y/x)
LogRatioInverted(xs, ys) == Log10All(Over(xs, ys))

LogRatio(xs, ys) == Log10All(Over(ys, xs))

\* 'x'+colours[count]
MarkerFirstColour(colours, count) == "x" \o colours.list[1]

Marker(colours, count) == "x" \o colours.list[count + 1]

\* plt.legend() lists the labelled lines; plt.legend([annotated]) labels the
\* first line.  printed is what print('<name>'+printedr) writes.
LabelsOf(lines) ==
    SelectSeq([k \in 1..Len(lines) |-> lines[k].label], LAMBDA l : l.text # "")

LegendAlwaysPrinted(colours, lines, name, printedr, annotated) ==
    [legend |-> LabelsOf(lines), printed |-> <<Prefixed(name, printedr)>>]

Legend(colours, lines, name, printedr, annotated) ==
    IF Truthy(colours)
    THEN [legend |-> LabelsOf(lines), printed |-> <<Prefixed(name, printedr)>>]
    ELSE [legend |-> <<annotated>>, printed |-> <<>>]

VARIABLES
    disk,       \* the files in the working directory
    galaxies,   \* plot's first argument
    colours,    \* plot's second argument
    pc,         \* where plot is, or the exception that ended it
    idx,        \* position in galaxies of the loop variable i (1-based)
    x, y, r,    \* plot's locals x, y, r
    title, r1, r2, count,
    lines,      \* the lines drawn on the current figure
    figs,       \* the figures shown by plt.show(), in order
    console,    \* what print() wrote
    calls,      \* history: every call of data() so far, with its value
    cx, cy,     \* corr_coeff on its own: the arguments
    cr, crs     \* and the values of corr_coeff(cx, cy), corr_coeff(cy, cx)

vars == <<disk, galaxies, colours, pc, idx, x, y, r, title, r1, r2, count,
          lines, figs, console, calls, cx, cy, cr, crs>>

plotVars == <<disk, galaxies, colours, pc, idx, x, y, r, title, r1, r2, count,
              lines, figs, console, calls>>

corrVars == <<cx, cy, cr, crs>>

\* ------------------------------------------------------------------------
\* Inputs.

GalaxyIds == {"3938", "5457"}

Palette == <<"r", "b", "g", "m">>

RECURSIVE Pow10(_)
Pow10(e) == IF e = 0 THEN 1 ELSE 10 * Pow10(e - 1)

\* Net counts of a region: what is left of a raw sum once the background is
\* taken off.  Negative, zero, and the positive values with a rational log10.
Nets == {-1, 0} \cup {Pow10(e) : e \in 0..MaxExp}

StdevFile(galaxy) ==
    IF galaxy = "3938" THEN << <<1, 1, 3, 1>>, <<3, 2, 5, 4>> >>
    ELSE << <<2, 1, 6, 2>>, <<4, 1, 10, 2>>, <<3, 4, 8, 5>> >>

\* The mean of column c of the galaxy's background file (an integer for the
\* files above).
Level(galaxy, c) ==
    LET f == StdevFile(galaxy)
        RECURSIVE Total(_)
        Total(n) == IF n = 0 THEN 0 ELSE Total(n - 1) + f[n][c + 1]
    IN  Total(Len(f)) \div Len(f)

\* One line of <galaxy>_emission_npix.txt: Right Ascension, Declination,
\* Sum UV, Npix UV, Sum IR, Npix IR, Galactocentric Radius.
Line(galaxy, netUV, npixUV, netIR, npixIR, radius) ==
    <<11, 47, Level(galaxy, 0) * npixUV + netUV, npixUV,
      Level(galaxy, 2) * npixIR + netIR, npixIR, radius>>

DefaultFiles(galaxy) ==
    [emission |->
        IF galaxy = "3938"
        THEN <<Line(galaxy, 1, 4, 10, 9, 1), Line(galaxy, 10, 1, 10, 4, 2)>>
        ELSE <<Line(galaxy, 1, 2, 10, 3, 1), Line(galaxy, 10, 5, 1, 2, 3),
               Line(galaxy, 10, 1, 10, 6, 2)>>,
     stdev |-> StdevFile(galaxy)]

DefaultDisk == [g \in GalaxyIds |-> DefaultFiles(g)]

\* Directories in which the two regions of NGC 3938 vary.
Disks ==
    {[DefaultDisk EXCEPT !["3938"].emission =
        <<Line("3938", a1, 4, b1, 9, 1), Line("3938", a2, 1, b2, 4, rad)>>] :
            <<a1, b1, a2, b2, rad>> \in Nets \X Nets \X Nets \X Nets \X (1..MaxRadius)}

GalaxyLists == UNION {[1..n -> GalaxyIds] : n \in 0..MaxGalaxies}

ColourChoices == {None} \cup {List(SubSeq(Palette, 1, n)) : n \in 0..MaxGalaxies}

NoCoeff == StrOf("", NoVal)

Locals ==
    /\ pc = "pool" /\ idx = 1
    /\ x = <<>> /\ y = <<>> /\ r = <<>>
    /\ title = "" /\ r1 = NoCoeff /\ r2 = NoCoeff /\ count = 0
    /\ lines = <<>> /\ figs = <<>> /\ console = <<>> /\ calls = <<>>

CorrIdle == cx = <<>> /\ cy = <<>> /\ cr = NoVal /\ crs = NoVal

Init ==
    /\ \/ /\ disk \in Disks
          /\ galaxies \in {<<"3938">>, <<"3938", "5457">>}
          /\ colours \in {None, List(SubSeq(Palette, 1, MaxGalaxies))}
       \/ /\ disk = DefaultDisk
          /\ galaxies \in GalaxyLists
          /\ colours \in ColourChoices
    /\ Locals
    /\ CorrIdle

\* ------------------------------------------------------------------------
\* The history of data() calls: rets are the values of the calls just made
\* for the galaxy at position idx.
Logged(rets) ==
    calls \o [k \in 1..Len(rets) |-> [pos |-> idx, phase |-> pc, ret |-> rets[k]]]

\* Lines 109-111: one iteration of 'for i in galaxies'; c holds the three
\* calls data(i) of line 110, in the order they are made.
PoolBody(i, c) ==
    /\ x' = NpAppend(x, c.rets[1][1])
    /\ y' = NpAppend(y, c.rets[2][2])
    /\ r' = NpAppend(r, c.rets[3][3])
    /\ title' = title \o "NGC " \o i \o "  "
    /\ calls' = Logged(c.rets)
    /\ disk' = c.disk

Pool ==
    /\ pc = "pool" /\ idx <= Len(galaxies)
    /\ PoolBody(galaxies[idx], DataCalls(disk, galaxies[idx], 3))
    /\ idx' = idx + 1
    /\ UNCHANGED <<galaxies, colours, pc, r1, r2, count, lines, figs, console>>
    /\ UNCHANGED corrVars

\* Lines 112-115: the two coefficients, once the loop is over.
Correlate ==
    /\ pc = "pool" /\ idx > Len(galaxies)
    /\ IF Len(x) = 0
       THEN /\ pc' = "ZeroDivisionError"
            /\ UNCHANGED <<r1, r2, idx>>
       ELSE /\ r1' = StrOf("r = ", corr_coeff(Log10All(x), Log10All(y)))
            /\ r2' = StrOf("r = ", corr_coeff(r, LogRatio(x, y)))
            /\ pc' = "plot1"
            /\ idx' = 1
    /\ UNCHANGED <<disk, galaxies, colours, x, y, r, title, count, lines, figs,
                   console, calls>>
    /\ UNCHANGED corrVars

\* plt.plot(xs, ys, fmt, label = ...) under 'if colours:', and count += 1.
\* colours[count] past the end of the list is an IndexError.
Draw(xs, ys, i) ==
    IF Truthy(colours)
    THEN IF count >= Len(colours.list)
         THEN /\ pc' = "IndexError"
              /\ UNCHANGED <<lines, count, idx>>
         ELSE /\ lines' = Append(lines, [xs |-> xs, ys |-> ys,
                                         fmt |-> Marker(colours, count),
                                         label |-> Str("NGC " \o i)])
              /\ count' = count + 1
              /\ idx' = idx + 1
              /\ UNCHANGED pc
    ELSE /\ lines' = Append(lines, [xs |-> xs, ys |-> ys, fmt |-> "xk",
                                    label |-> Str("")])
         /\ count' = count + 1
         /\ idx' = idx + 1
         /\ UNCHANGED pc

\* Lines 117-123; c holds the calls data(i) of lines 117 and 118.
Plot1Body(i, c) ==
    /\ x' = c.rets[1][1]
    /\ y' = c.rets[2][2]
    /\ Draw(Log10All(c.rets[1][1]), Log10All(c.rets[2][2]), i)
    /\ calls' = Logged(c.rets)
    /\ disk' = c.disk

Plot1 ==
    /\ pc = "plot1" /\ idx <= Len(galaxies)
    /\ Plot1Body(galaxies[idx], DataCalls(disk, galaxies[idx], 2))
    /\ UNCHANGED <<galaxies, colours, r, title, r1, r2, figs, console>>
    /\ UNCHANGED corrVars

\* plt.title ... plt.show(): the figure shown, and what print() wrote.
Shown(xlabel, ylabel, shown) ==
    /\ figs' = Append(figs, [lines |-> lines, title |-> title, xlabel |-> xlabel,
                             ylabel |-> ylabel, legend |-> shown.legend])
    /\ console' = console \o shown.printed
    /\ lines' = <<>>

\* Lines 124-135.
Show1 ==
    /\ pc = "plot1" /\ idx > Len(galaxies)
    /\ Shown("log(UV flux density)", "log(IR flux density)",
             Legend(colours, lines, "First graph: ", r1, r1))
    /\ count' = 0
    /\ idx' = 1
    /\ pc' = "plot2"
    /\ UNCHANGED <<disk, galaxies, colours, x, y, r, title, r1, r2, calls>>
    /\ UNCHANGED corrVars

\* Lines 137-143; c holds the calls data(i) of line 137 and of line 138, the
\* numerator's first.
Plot2Body(i, c) ==
    /\ x' = c.rets[1][3]
    /\ y' = Over(c.rets[2][2], c.rets[3][1])
    /\ Draw(c.rets[1][3], Log10All(Over(c.rets[2][2], c.rets[3][1])), i)
    /\ calls' = Logged(c.rets)
    /\ disk' = c.disk

Plot2 ==
    /\ pc = "plot2" /\ idx <= Len(galaxies)
    /\ Plot2Body(galaxies[idx], DataCalls(disk, galaxies[idx], 3))
    /\ UNCHANGED <<galaxies, colours, r, title, r1, r2, figs, console>>
    /\ UNCHANGED corrVars

\* Lines 144-152: line 149 prints r2, line 151 gives the legend r1.
Show2 ==
    /\ pc = "plot2" /\ idx > Len(galaxies)
    /\ Shown("galactocentric radius (arcsec)",
             "log(IR flux density/UV flux density)",
             Legend(colours, lines, "Second graph: ", r2, r1))
    /\ pc' = "done"
    /\ UNCHANGED <<disk, galaxies, colours, idx, x, y, r, title, r1, r2, count, calls>>
    /\ UNCHANGED corrVars

Next == Pool \/ Correlate \/ Plot1 \/ Show1 \/ Plot2 \/ Show2

Spec == Init /\ [][Next]_vars

\* ------------------------------------------------------------------------
\* corr_coeff on its own, on arrays of small integers.

IntArrays == UNION {[1..n -> 0..MaxVal] : n \in 1..MaxLen}

Nums(a) ==
    Array([k \in 1..Len(a) |-> Num(a[k])])

CorrInit ==
    /\ disk = DefaultDisk /\ galaxies = <<>> /\ colours = None
    /\ Locals
    /\ CorrIdle

CorrCall ==
    /\ cx = <<>>
    /\ \E a \in IntArrays : \E b \in [1..Len(a) -> 0..MaxVal] :
          /\ cx' = a
          /\ cy' = b
          /\ cr' = corr_coeff(Nums(a), Nums(b))
          /\ crs' = corr_coeff(Nums(b), Nums(a))
    /\ UNCHANGED plotVars

SpecCorr == CorrInit /\ [][CorrCall]_vars

\* ========================================================================
\* The claims.
\*
\* Reference values are written in integer arithmetic straight from the
\* files, not with the operators that model the code.

\* The total of column c (counted from 0) of a file.
RECURSIVE ColTotalTo(_, _, _)
ColTotalTo(file, c, n) ==
    IF n = 0 THEN 0 ELSE ColTotalTo(file, c, n - 1) + file[n][c + 1]

ColTotal(file, c) == ColTotalTo(file, c, Len(file))

Regions(g) == 1..Len(disk[g].emission)

Rows(g) == Len(disk[g].stdev)

\* Rows(g) * (raw sum - mean background * pixel count) of region k, for the
\* band whose sum is column c, pixel count column c + 1 and mean background
\* column b of the background file.
NetTimesRows(g, k, c, b) ==
    disk[g].emission[k][c + 1] * Rows(g)
        - ColTotal(disk[g].stdev, b) * disk[g].emission[k][c + 2]

\* (raw sum - B * pixel count) * K
ExpectedUV(g, k) == Fin(RNorm(NetTimesRows(g, k, 2, 0), Rows(g)), 1, 0, R(0), R(0))

ExpectedIR(g, k) == Fin(RNorm(NetTimesRows(g, k, 4, 2), Rows(g)), 0, 1, R(0), R(0))

ExpectedRadius(g, k) == Num(disk[g].emission[k][7])

\* sqrt(Npix * u^2 + c^2) / ln(10), u = mean of column sd / mean of column b
\* of the background file, Npix column n of the region, c = cal/100.
ExpectedLogUnc(g, k, n, sd, b, cal) ==
    Root(1,
         RNorm(disk[g].emission[k][n + 1] * ColTotal(disk[g].stdev, sd)
                   * ColTotal(disk[g].stdev, sd) * 10000
               + cal * cal * ColTotal(disk[g].stdev, b) * ColTotal(disk[g].stdev, b),
               ColTotal(disk[g].stdev, b) * ColTotal(disk[g].stdev, b) * 10000),
         -1)

\* The regions of galaxies[1..n], in list order: for each its expected UV
\* flux, IR flux and radius, and where it comes from.
RECURSIVE PooledTo(_)
PooledTo(n) ==
    IF n = 0 THEN <<>>
    ELSE PooledTo(n - 1) \o
         [k \in Regions(galaxies[n]) |->
            [uv |-> ExpectedUV(galaxies[n], k), ir |-> ExpectedIR(galaxies[n], k),
             rad |-> ExpectedRadius(galaxies[n], k), pos |-> n, region |-> k]]

Pooled == PooledTo(Len(galaxies))

Field(recs, f) == [k \in 1..Len(recs) |-> recs[k][f]]

Positions == 1..Len(galaxies)

\* plot got past line 113: both coefficients exist.
Correlated == pc \in {"plot1", "plot2", "done", "IndexError"}

\* The calls of data() made in a phase for the galaxy at position pos.
CallsIn(phase, pos) ==
    SelectSeq(calls, LAMBDA c : c.phase = phase /\ c.pos = pos)

FirstName == "First graph: "

SecondName == "Second graph: "

LabelsExpected == [k \in Positions |-> Str("NGC " \o galaxies[k])]

\* ------------------------------------------------------------------------
\* C1: for each plot shown, with colours supplied (a non-empty list) the
\* plot's coefficient is printed and the legend lists the per-galaxy labels;
\* without colours nothing is printed and the legend is one entry, a
\* correlation coefficient.  One mode serves both plots.
C1_OutputMode ==
    \A p \in 1..Len(figs) :
        IF Truthy(colours)
        THEN /\ Len(console) = Len(figs)
             /\ console[p] = Prefixed(IF p = 1 THEN FirstName ELSE SecondName,
                                      IF p = 1 THEN r1 ELSE r2)
             /\ figs[p].legend = LabelsExpected
        ELSE /\ console = <<>>
             /\ Len(figs[p].legend) = 1
             /\ figs[p].legend[1].text = "r = "
             /\ figs[p].legend[1] \in {r1, r2}

C1_Witness ==
    /\ pc = "done" /\ Truthy(colours) /\ Len(console) = 2
    /\ console[1] # console[2]

\* ------------------------------------------------------------------------
\* C3: each coefficient is computed once over the pooled regions of all
\* listed galaxies: r1 from (log10 UV, log10 IR), r2 from (radius,
\* log10(IR/UV)), UV and IR being the background-subtracted calibrated fluxes.
C3_PooledCoefficients ==
    Correlated =>
        /\ r1 = StrOf("r = ", corr_coeff(Log10All(Field(Pooled, "uv")),
                                         Log10All(Field(Pooled, "ir"))))
        /\ r2 = StrOf("r = ", corr_coeff(Field(Pooled, "rad"),
                                         Log10All(Over(Field(Pooled, "ir"),
                                                       Field(Pooled, "uv")))))

C3_Witness ==
    /\ Correlated /\ Len(galaxies) = 2 /\ galaxies[1] # galaxies[2]
    /\ r1.val.k = "fin" /\ r2.val.k = "fin"
    /\ r1.val.sq \notin {R(0), R(1)} /\ r2.val.s = -1

\* ------------------------------------------------------------------------
\* C2: the coefficient reported with the second plot is r2, the one for
\* radius against log10(IR/UV), whether printed (colours) or put in the
\* legend (no colours); the one reported with the first plot is r1.
C2_EachPlotReportsItsOwn ==
    pc = "done" =>
        IF Truthy(colours)
        THEN console = <<Prefixed(FirstName, r1), Prefixed(SecondName, r2)>>
        ELSE figs[1].legend = <<r1>> /\ figs[2].legend = <<r2>>

\* ------------------------------------------------------------------------
\* C4: corr_coeff is Pearson's r: r^2 Sxx Syy = Sxy^2 with the sign of Sxy,
\* so for equal-length arrays, neither constant, -1 <= r <= 1 and
\* corr_coeff(x, y) = corr_coeff(y, x).

RECURSIVE IntSumTo(_, _)
IntSumTo(a, n) == IF n = 0 THEN 0 ELSE IntSumTo(a, n - 1) + a[n]

IntSum(a) == IntSumTo(a, Len(a))

\* Len(a) * (a[k] - mean(a))
Dev(a) == [k \in 1..Len(a) |-> Len(a) * a[k] - IntSum(a)]

\* Len^2 * sum((a - mean(a)) * (b - mean(b)))
S(a, b) == IntSum([k \in 1..Len(a) |-> Dev(a)[k] * Dev(b)[k]])

C4_Pearson ==
    (cx # <<>> /\ S(cx, cx) # 0 /\ S(cy, cy) # 0) =>
        /\ cr.k = "fin" /\ cr.ln = 0
        /\ cr.sq = RNorm(S(cx, cy) * S(cx, cy), S(cx, cx) * S(cy, cy))
        /\ cr.s = Sign(S(cx, cy))
        /\ cr.sq[1] <= cr.sq[2]
        /\ crs = cr

C4_Witness ==
    /\ cx # <<>> /\ S(cx, cx) # 0 /\ S(cy, cy) # 0
    /\ cr.s = -1 /\ cr.sq \notin {R(0), R(1)}

\* ------------------------------------------------------------------------
\* C5: every call of data returns, for every region, UV = (raw UV sum -
\* B_UV * UV pixel count) * KUV and IR = (raw IR sum - B_IR * IR pixel
\* count) * KIR, B the mean of the band's mean-background column.
C5_Flux ==
    \A n \in 1..Len(calls) :
        LET g == galaxies[calls[n].pos] IN
        /\ calls[n].ret[1] = [k \in Regions(g) |-> ExpectedUV(g, k)]
        /\ calls[n].ret[2] = [k \in Regions(g) |-> ExpectedIR(g, k)]

C5_Witness ==
    \E n \in 1..Len(calls) : \E k \in 1..Len(calls[n].ret[1]) :
        /\ calls[n].ret[1][k] = Mul(Num(10), KUV)
        /\ calls[n].ret[2][k] = Mul(Num(-1), KIR)
        /\ disk[galaxies[calls[n].pos]].emission[k][4]
              # disk[galaxies[calls[n].pos]].emission[k][6]

\* ------------------------------------------------------------------------
\* C6: every call of data returns, for every region, the log-space
\* uncertainties sqrt(Npix * u^2 + c^2) / ln(10), with the band's own Npix
\* and u, c = 0.03 for UV and 0.04 for IR.
C6_Uncertainty ==
    \A n \in 1..Len(calls) :
        LET g == galaxies[calls[n].pos] IN
        /\ calls[n].ret[4] = [k \in Regions(g) |-> ExpectedLogUnc(g, k, 3, 1, 0, 3)]
        /\ calls[n].ret[5] = [k \in Regions(g) |-> ExpectedLogUnc(g, k, 5, 3, 2, 4)]

C6_Witness ==
    \E n \in 1..Len(calls) : \E k \in 1..Len(calls[n].ret[4]) :
        /\ disk[galaxies[calls[n].pos]].emission[k][4] > 1
        /\ calls[n].ret[4][k].k = "fin"
        /\ calls[n].ret[4][k] # calls[n].ret[5][k]

\* ------------------------------------------------------------------------
\* C7: with colours, in both plots the k-th galaxy is drawn with 'x' +
\* colours[k] and labelled 'NGC <id>'; without, every galaxy is drawn 'xk'.
\* Both titles are the 'NGC <id>  ' of the galaxies in list order.

RECURSIVE TitleTo(_)
TitleTo(n) == IF n = 0 THEN "" ELSE TitleTo(n - 1) \o "NGC " \o galaxies[n] \o "  "

C7_MarkersAndTitle ==
    \A p \in 1..Len(figs) :
        /\ figs[p].title = TitleTo(Len(galaxies))
        /\ Len(figs[p].lines) = Len(galaxies)
        /\ \A k \in Positions :
              IF Truthy(colours)
              THEN /\ figs[p].lines[k].fmt = "x" \o colours.list[k]
                   /\ figs[p].lines[k].label = Str("NGC " \o galaxies[k])
              ELSE /\ figs[p].lines[k].fmt = "xk"
                   /\ figs[p].lines[k].label = Str("")

C7_Witness ==
    /\ pc = "done" /\ Truthy(colours)
    /\ Len(colours.list) = Len(galaxies) /\ Len(galaxies) = 2
    /\ galaxies[1] # galaxies[2]
    /\ figs[2].lines[2].fmt = "xb"

\* ------------------------------------------------------------------------
\* C8: data keeps no state.

\* Every call of data for a galaxy returns the same five arrays, each flux
\* background-subtracted and calibrated exactly once.
CallsAgree ==
    \A n \in 1..Len(calls) :
        /\ \A m \in 1..Len(calls) :
              galaxies[calls[m].pos] = galaxies[calls[n].pos]
                  => calls[m].ret = calls[n].ret
        /\ calls[n].ret[1] =
              [k \in Regions(galaxies[calls[n].pos]) |->
                  ExpectedUV(galaxies[calls[n].pos], k)]

\* What the two plots draw for a galaxy is what its pooling calls returned.
PlottedIsPooled ==
    pc = "done" =>
        \A k \in Positions :
            /\ figs[1].lines[k].xs = Log10All(CallsIn("pool", k)[1].ret[1])
            /\ figs[1].lines[k].ys = Log10All(CallsIn("pool", k)[2].ret[2])
            /\ figs[2].lines[k].xs = CallsIn("pool", k)[3].ret[3]
            /\ figs[2].lines[k].ys =
                  Log10All(Over(CallsIn("pool", k)[2].ret[2],
                                CallsIn("pool", k)[1].ret[1]))

\* C8 as stated: ... plot calls data three times per list entry while
\* pooling and once or twice per entry per plot.
C8_OnceOrTwicePerPlot ==
    /\ CallsAgree
    /\ PlottedIsPooled
    /\ pc = "done" =>
          \A k \in Positions :
              /\ Len(CallsIn("pool", k)) = 3
              /\ Len(CallsIn("plot1", k)) \in {1, 2}
              /\ Len(CallsIn("plot2", k)) \in {1, 2}

\* C8 as amended: all calls of data for a galaxy return the same arrays,
\* each flux reduced exactly once, what is plotted is what was pooled, and
\* plot calls data three times per list entry while pooling, twice per entry
\* for the first plot and three times per entry for the second.
C8_Stateless ==
    /\ CallsAgree
    /\ PlottedIsPooled
    /\ pc = "done" =>
          \A k \in Positions :
              /\ Len(CallsIn("pool", k)) = 3
              /\ Len(CallsIn("plot1", k)) = 2
              /\ Len(CallsIn("plot2", k)) = 3

C8_Witness ==
    /\ pc = "done" /\ Len(galaxies) = 2 /\ galaxies[1] = galaxies[2]
    /\ Len(calls) = 16
    /\ \E k \in 1..Len(calls[1].ret[1]) : calls[1].ret[1][k] = Mul(Num(10), KUV)

\* ------------------------------------------------------------------------
\* C9: the pooling loop keeps x, y, r aligned.

\* After every iteration x, y and r hold, in list order, the UV flux, IR
\* flux and radius of every region of the galaxies processed so far.
PoolAligned ==
    pc = "pool" =>
        /\ Len(x) = Len(PooledTo(idx - 1))
        /\ Len(y) = Len(x) /\ Len(r) = Len(x)
        /\ \A k \in 1..Len(x) :
              /\ x[k] = PooledTo(idx - 1)[k].uv
              /\ y[k] = PooledTo(idx - 1)[k].ir
              /\ r[k] = PooledTo(idx - 1)[k].rad

InputCol(g, c) == [k \in Regions(g) |-> Num(disk[g].emission[k][c + 1])]

\* data returns the radius column as it is in the file.
RadiusReturned ==
    \A n \in 1..Len(calls) :
        calls[n].ret[3] = InputCol(galaxies[calls[n].pos], 6)

\* C9 as stated: ... and data returns the radius column and the two
\* pixel-count columns of the input unmodified.
C9_ReturnsPixelCounts ==
    /\ PoolAligned
    /\ RadiusReturned
    /\ \A n \in 1..Len(calls) :
          /\ \E m \in 1..Len(calls[n].ret) :
                calls[n].ret[m] = InputCol(galaxies[calls[n].pos], 3)
          /\ \E m \in 1..Len(calls[n].ret) :
                calls[n].ret[m] = InputCol(galaxies[calls[n].pos], 5)

\* C9 as amended: ... and data returns the radius column of the input
\* unmodified; the pixel-count columns are not among the five arrays it
\* returns, and its local array keeps them, and the radius, as read.
C9_PoolAligned ==
    /\ PoolAligned
    /\ RadiusReturned
    /\ \A n \in 1..Len(calls) :
          /\ Len(calls[n].ret) = 5
          /\ \A m \in 1..5 : \A c \in {3, 5} :
                calls[n].ret[m] = InputCol(galaxies[calls[n].pos], c)
                    => InputCol(galaxies[calls[n].pos], c)
                          = InputCol(galaxies[calls[n].pos], 6)
    /\ (pc = "pool" /\ idx > 1) =>
          \A c \in {3, 5, 6} :
              Col(data(disk, galaxies[idx - 1]).array, c)
                  = InputCol(galaxies[idx - 1], c)

C9_Witness ==
    /\ pc = "pool" /\ idx = 3 /\ galaxies = <<"3938", "5457">>
    /\ Len(x) = 5 /\ x[1] # x[3] /\ r[2] # r[4]

\* ------------------------------------------------------------------------
\* C10: regions whose background-subtracted flux is not positive.

\* <<position in galaxies, region>> of every region of every listed galaxy
AllRegions ==
    UNION {{<<p, k>> : k \in Regions(galaxies[p])} : p \in Positions}

NetUV(pk) == NetTimesRows(galaxies[pk[1]], pk[2], 2, 0)

NetIR(pk) == NetTimesRows(galaxies[pk[1]], pk[2], 4, 2)

\* raw UV sum <= B_UV * pixel count, or the same for IR
NonPositive(pk) == NetUV(pk) <= 0 \/ NetIR(pk) <= 0

BothNegative(pk) == NetUV(pk) < 0 /\ NetIR(pk) < 0

SomeNonPositive == \E pk \in AllRegions : NonPositive(pk)

RadiiVary ==
    \E a, b \in AllRegions :
        disk[galaxies[a[1]]].emission[a[2]][7] # disk[galaxies[b[1]]].emission[b[2]][7]

\* IR/UV is not the same for every region
RatiosVary ==
    \E a, b \in AllRegions : NetIR(a) * NetUV(b) # NetIR(b) * NetUV(a)

\* Such a region is pooled like any other, and the log10 of its UV or IR
\* flux is nan or -inf.
NonPositivePooled ==
    (pc = "plot1" /\ idx = 1) =>
        /\ Len(x) = Len(Pooled) /\ Len(y) = Len(Pooled)
        /\ \A n \in 1..Len(Pooled) :
              NonPositive(<<Pooled[n].pos, Pooled[n].region>>) =>
                  /\ x[n] = Pooled[n].uv /\ y[n] = Pooled[n].ir
                  /\ Log10(x[n]).k # "fin" \/ Log10(y[n]).k # "fin"

\* No exception comes of it: plot ends only as it would with positive fluxes.
NoErrorFromFlux ==
    SomeNonPositive =>
        /\ pc # "ZeroDivisionError"
        /\ pc = "IndexError" => Truthy(colours) /\ Len(colours.list) < Len(galaxies)
        /\ pc = "done" =>
              /\ Len(figs) = 2
              /\ Len(figs[1].lines) = Len(galaxies)
              /\ Len(figs[2].lines) = Len(galaxies)

\* C10 as stated: with such a region among the listed galaxies, it is pooled,
\* its log10 is not finite, both coefficients are nan, no error is raised and
\* both plots are produced.
C10_BothCoefficientsNaN ==
    /\ NonPositivePooled
    /\ NoErrorFromFlux
    /\ (Correlated /\ SomeNonPositive) => r1.val.k = "nan" /\ r2.val.k = "nan"

\* C10 as amended: ... the first coefficient is nan; the second is nan when
\* some such region has a zero flux or fluxes of opposite sign, and is an
\* ordinary number when every such region has both fluxes negative (their
\* ratio is positive) and neither the radii nor the ratios are all equal.
C10_NonPositiveFlux ==
    /\ NonPositivePooled
    /\ NoErrorFromFlux
    /\ (Correlated /\ SomeNonPositive) =>
          /\ r1.val.k = "nan"
          /\ (\E pk \in AllRegions : NonPositive(pk) /\ ~BothNegative(pk))
                => r2.val.k = "nan"
          /\ ((\A pk \in AllRegions : NonPositive(pk) => BothNegative(pk))
                /\ RadiiVary /\ RatiosVary)
                => r2.val.k = "fin"

C10_Witness ==
    /\ pc = "done" /\ SomeNonPositive
    /\ r1.val.k = "nan" /\ r2.val.k = "fin" /\ r2.val.s # 0
    /\ Len(figs) = 2

\* ------------------------------------------------------------------------
\* Every number the program computes on these inputs is one the model
\* represents exactly.
Representable ==
    /\ r1.val.k # "sym" /\ r2.val.k # "sym" /\ cr.k # "sym" /\ crs.k # "sym"
    /\ \A n \in 1..Len(x) : x[n].k # "sym" /\ y[n].k # "sym"
    /\ \A p \in 1..Len(figs) : \A k \in 1..Len(figs[p].lines) :
          \A n \in 1..Len(figs[p].lines[k].ys) :
              figs[p].lines[k].ys[n].k # "sym" /\ figs[p].lines[k].xs[n].k # "sym"
    /\ \A n \in 1..Len(calls) : \A k \in 1..Len(calls[n].ret[4]) :
          calls[n].ret[4][k].k = "fin" /\ calls[n].ret[5][k].k = "fin"

====
